---- MODULE Spec2Model ----
(***************************************************************************)
(* SVG Maker MCP server (src/src/index.ts): the structural validator       *)
(* validateSvgContent, the tool registry with its input contracts, and the *)
(* operation handlers.                                                     *)
(*                                                                         *)
(* JavaScript strings that the code takes apart (tag names, object keys)   *)
(* are sequences of lexemes, ":" being a lexeme of its own:                *)
(*   "svg" is <<"svg">>,  "ns:svg" is <<"ns", ":", "svg">>.                *)
(***************************************************************************)
EXTENDS Integers, Sequences, FiniteSets, TLC

\* ------------------------------------------------------------------ bounds
\* Largest number of elements in a generated document.
MaxNodes == 3

\* Number of invocations that may be in flight together.
MaxInv == 2

\* Size of the pool uuidv4() draws its (never repeated) values from.
MaxUuids == 2

\* Number of GET /sse requests the SSE server receives.
MaxGets == 2

\* Number of POST /messages requests the SSE server receives.
MaxPosts == 2

\* Number of clients of the SSE server.
MaxClients == 2

\* ------------------------------------------------------- strings and keys
Str(s) == <<s>>

Colons(s) == {i \in 1..Len(s) : s[i] = ":"}

LastColon(s) == CHOOSE i \in Colons(s) : \A j \in Colons(s) : j <= i

\* key.replace(/^.*:/, ""): the greedy match removes everything up to the
\* last colon; a string without a colon is returned unchanged.
StripNs(s) == IF Colons(s) = {} THEN s ELSE SubSeq(s, LastColon(s) + 1, Len(s))

\* key.startsWith("@_")
StartsWithAt(s) == Len(s) > 0 /\ s[1] = "@_"

\* The Known Tag Vocabulary (./svg_standards): the names this model uses
\* from it.
SVG_TAGS == {Str("svg"), Str("g"), Str("rect"), Str("title")}

\* ------------------------------------------------------------- documents
\* An element of a source document: its tag, its attribute names in
\* document order, whether it has (non-whitespace) text, its children.
Elem(tag, attrs, text, kids) ==
    [tag |-> tag, attrs |-> attrs, text |-> text, kids |-> kids]

ChildTags == {Str("rect"), Str("customShape")}

RootTags == {Str("svg"), <<"ns", ":", "svg">>, Str("Svg"), Str("g")}

\* attribute list and text flag of the generated elements
ChildContents == {<<<<>>, FALSE>>, <<<<>>, TRUE>>, <<<<Str("width")>>, FALSE>>}

RootContents == {<<<<>>, FALSE>>, <<<<Str("width")>>, FALSE>>}

RECURSIVE TreesN(_), ForestsN(_)
\* the elements with exactly n nodes, and the child lists with m nodes
TreesN(n) ==
    IF n = 0 THEN {}
    ELSE {Elem(t, c[1], c[2], f) :
            t \in ChildTags, c \in ChildContents, f \in ForestsN(n - 1)}

ForestsN(m) ==
    IF m = 0 THEN {<<>>}
    ELSE UNION {{<<t>> \o f : t \in TreesN(k), f \in ForestsN(m - k)} : k \in 1..m}

Roots ==
    UNION {{Elem(t, c[1], c[2], f) :
              t \in RootTags, c \in RootContents, f \in ForestsN(n)} :
           n \in 0..(MaxNodes - 1)}

\* A processing instruction of the prolog: <?target attr="..."?>
PI(target, attrs) == [target |-> target, attrs |-> attrs]

XmlDecl == PI(Str("?xml"), <<Str("version")>>)

StyleSheetPI == PI(Str("?xml-stylesheet"), <<Str("href")>>)

Prologs == {<<>>, <<XmlDecl>>, <<XmlDecl, StyleSheetPI>>}

NoElem == Elem(<<>>, <<>>, FALSE, <<>>)

\* A source text. fault = "none": a well-formed document (prolog, one root
\* element). "empty": the empty string. "blank": whitespace only.
\* "unclosed": the document with one closing tag left out.
Source(fault, prolog, root) == [fault |-> fault, prolog |-> prolog, root |-> root]

WellFormed == {Source("none", p, r) : p \in Prologs, r \in Roots}

Malformed ==
    {Source("empty", <<>>, NoElem), Source("blank", <<>>, NoElem)}
    \cup {Source("unclosed", <<>>, r) :
             r \in {x \in Roots : Len(x.kids) = 1 /\ x.kids[1].kids = <<>>}}

Sources == WellFormed \cup Malformed

\* ------------------------------------------------- fast-xml-parser values
\* A parsed value: the empty string, a non-empty primitive (string or
\* number), or an object / array, whose entries are its own enumerable keys
\* in enumeration order.
EmptyString == [k |-> "empty", e |-> <<>>]

Prim == [k |-> "prim", e |-> <<>>]

Obj(entries) == [k |-> "obj", e |-> entries]

Entry(key, val) == [key |-> key, val |-> val]

\* typeof v
typeof(v) == IF v.k \in {"obj", "arr"} THEN "object" ELSE "string"

\* the index of the entry of `entries` with key `key`, 0 if there is none
IndexOfKey(entries, key) ==
    IF \E i \in 1..Len(entries) : entries[i].key = key
    THEN CHOOSE i \in 1..Len(entries) : entries[i].key = key
    ELSE 0

\* compressedObj[property] = val, or the push onto an array when the
\* property is already there (node2json.js of fast-xml-parser)
AddProperty(entries, key, val) ==
    LET i == IndexOfKey(entries, key) IN
    IF i = 0 THEN Append(entries, Entry(key, val))
    ELSE LET old == entries[i].val
             arr == IF old.k = "arr" THEN old.e ELSE <<Entry(Str("0"), old)>>
         IN [entries EXCEPT ![i].val =
                [k |-> "arr", e |-> Append(arr, Entry(Str(ToString(Len(arr))), val))]]

\* the attribute entries, each key being attributeNamePrefix + name
AttrEntries(attrs, prefix) ==
    [i \in 1..Len(attrs) |-> Entry(prefix \o attrs[i], Prim)]

RECURSIVE compress(_, _, _), ElemValue(_, _)
\* the object built from a list of children and the text between them:
\* one key per distinct child tag in order of first occurrence, then #text
compress(kids, text, prefix) ==
    LET RECURSIVE Fold(_, _)
        Fold(i, acc) ==
            IF i > Len(kids) THEN acc
            ELSE Fold(i + 1, AddProperty(acc, kids[i].tag, ElemValue(kids[i], prefix)))
    IN Fold(1, <<>>) \o (IF text THEN <<Entry(Str("#text"), Prim)>> ELSE <<>>)

\* the value of an element: an object when it has attributes or children,
\* else its text, else the empty string
ElemValue(el, prefix) ==
    LET val == compress(el.kids, el.text, prefix) IN
    IF el.attrs # <<>> THEN Obj(val \o AttrEntries(el.attrs, prefix))
    ELSE IF el.kids = <<>> THEN (IF el.text THEN Prim ELSE EmptyString)
    ELSE Obj(val)

\* new XMLParser({ignoreAttributes: false, attributeNamePrefix}).parse(src):
\* the root-level object, the prolog's instructions first
parse(src, prefix) ==
    IF src.fault \in {"empty", "blank"} THEN Obj(<<>>)
    ELSE Obj([i \in 1..Len(src.prolog) |->
                Entry(src.prolog[i].target,
                      IF src.prolog[i].attrs = <<>> THEN EmptyString
                      ELSE Obj(AttrEntries(src.prolog[i].attrs, prefix)))]
             \o <<Entry(src.root.tag, ElemValue(src.root, prefix))>>)

\* XMLValidator.validate(src): true, or the message of the syntax fault
XMLValidate(src) ==
    CASE src.fault = "none" -> [ok |-> TRUE, msg |-> ""]
      [] src.fault \in {"empty", "blank"} -> [ok |-> FALSE, msg |-> "Start tag expected."]
      [] src.fault = "unclosed" -> [ok |-> FALSE, msg |-> "Expected closing tag."]

\* --------------------------------------------------- validateSvgContent
SyntaxError(msg) == [type |-> "XML Syntax Error: ", arg |-> Str(msg)]

RootError(found) == [type |-> "Root element must be 'svg', found ", arg |-> found]

TagWarning(tagName) == [type |-> "Non-standard SVG tag found: ", arg |-> tagName]

\* Verdict with the warnings promoted to errors
VerdictWarningsCount(errors, warnings) ==
    [valid |-> (Len(errors) = 0 /\ Len(warnings) = 0), errors |-> errors,
     warnings |-> warnings]

\* { valid: errors.length === 0, errors, warnings }
Verdict(errors, warnings) ==
    [valid |-> (Len(errors) = 0), errors |-> errors, warnings |-> warnings]

\* rootKeys.find(key => key !== "?xml"): the first root-level key that is
\* not the declaration's, <<>> (undefined) when there is none
FindRootTag(jsonObj) ==
    LET keys == {i \in 1..Len(jsonObj.e) : jsonObj.e[i].key # Str("?xml")} IN
    IF keys = {} THEN <<>>
    ELSE jsonObj.e[CHOOSE i \in keys : \A j \in keys : i <= j].key

\* the root check: the errors it pushes
RootCheck(jsonObj) ==
    LET rootTag == FindRootTag(jsonObj) IN
    IF rootTag = <<>> \/ StripNs(rootTag) # Str("svg")
    THEN <<RootError(IF rootTag = <<>> THEN Str("none") ELSE rootTag)>>
    ELSE <<>>

\* whether checkTags pushes a warning for an object-valued key
IsNonStandard(key) ==
    LET tagName == StripNs(key) IN
    /\ tagName # Str("svg")
    /\ tagName \notin SVG_TAGS
    /\ ~StartsWithAt(key)
    /\ key # Str("#text")

RECURSIVE checkTags(_)
\* the warnings checkTags(obj) pushes: for (const key in obj), only the keys
\* whose value is an object (or an array) are looked at and descended into
checkTags(obj) ==
    LET RECURSIVE Walk(_)
        Walk(i) ==
            IF i > Len(obj.e) THEN <<>>
            ELSE (IF typeof(obj.e[i].val) = "object"
                  THEN (IF IsNonStandard(obj.e[i].key)
                        THEN <<TagWarning(StripNs(obj.e[i].key))>> ELSE <<>>)
                       \o checkTags(obj.e[i].val)
                  ELSE <<>>)
                 \o Walk(i + 1)
    IN Walk(1)

\* validateSvgContent without the early return on a syntax fault
validateSvgContentNoFailFast(svgCode) ==
    LET validationResult == XMLValidate(svgCode)
        jsonObj == parse(svgCode, <<>>)
    IN Verdict((IF validationResult.ok THEN <<>> ELSE <<SyntaxError(validationResult.msg)>>)
               \o RootCheck(jsonObj),
               checkTags(jsonObj))

\* validateSvgContent of createServer (the default export)
validateSvgContent(svgCode) ==
    LET validationResult == XMLValidate(svgCode) IN
    IF ~validationResult.ok
    THEN [valid |-> FALSE, errors |-> <<SyntaxError(validationResult.msg)>>,
          warnings |-> <<>>]
    ELSE LET jsonObj == parse(svgCode, <<>>) IN
         Verdict(RootCheck(jsonObj), checkTags(jsonObj))

\* validateSvgContent of createServerInstance: the same without the tag walk
validateSvgContentInstance(svgCode) ==
    LET validationResult == XMLValidate(svgCode) IN
    IF ~validationResult.ok
    THEN [valid |-> FALSE, errors |-> <<SyntaxError(validationResult.msg)>>,
          warnings |-> <<>>]
    ELSE Verdict(RootCheck(parse(svgCode, <<>>)), <<>>)

Builds == {"createServer", "createServerInstance"}

Validate(b, svgCode) ==
    IF b = "createServer" THEN validateSvgContent(svgCode)
    ELSE validateSvgContentInstance(svgCode)

\* ------------------------------------------------ requests and contracts
\* A JavaScript value of an argument mapping; Absent is a key not supplied.
SVal(s) == [t |-> "string", v |-> <<s>>]

NVal(n) == [t |-> "number", v |-> <<n>>]

BVal(b) == [t |-> "boolean", v |-> <<b>>]

Absent == [t |-> "undefined", v |-> <<>>]

IsAbsent(x) == x.t = "undefined"

\* the keys a client may supply; "verbose" is declared by no operation
ArgKeys == {"svg_code", "width", "height", "filename", "optimize",
            "component_name", "verbose"}

NoArgs == [k \in ArgKeys |-> Absent]

Param(type, required, default) ==
    [type |-> type, required |-> required, default |-> default]

SvgCodeOnly == [k \in {"svg_code"} |-> Param("string", TRUE, Absent)]

\* the inputSchema of every registered tool
Registry ==
    [render_svg |->
        [k \in {"svg_code", "width", "height"} |->
            IF k = "svg_code" THEN Param("string", TRUE, Absent)
            ELSE Param("number", FALSE, Absent)],
     save_svg |->
        [k \in {"svg_code", "filename", "optimize"} |->
            IF k = "optimize" THEN Param("boolean", FALSE, BVal(TRUE))
            ELSE Param("string", TRUE, Absent)],
     optimize_svg |-> SvgCodeOnly,
     format_svg |-> SvgCodeOnly,
     svg_to_react |->
        [k \in {"svg_code", "component_name"} |->
            IF k = "svg_code" THEN Param("string", TRUE, Absent)
            ELSE Param("string", FALSE, SVal("SvgComponent"))],
     svg_to_react_native |->
        [k \in {"svg_code", "component_name"} |->
            IF k = "svg_code" THEN Param("string", TRUE, Absent)
            ELSE Param("string", FALSE, SVal("SvgComponent"))],
     svg_to_data_uri |-> SvgCodeOnly,
     svg_to_pdf |-> SvgCodeOnly,
     validate_svg |-> SvgCodeOnly,
     get_svg_metadata |-> SvgCodeOnly]

Operations == DOMAIN Registry

\* a contract check that looks at svg_code only
AcceptsSvgCodeOnly(schema, arguments) == arguments["svg_code"].t = "string"

\* inputSchema.safeParse(arguments) of a z.object: does every declared
\* parameter have a value of its type, or is optional and absent
Accepts(schema, arguments) ==
    \A k \in DOMAIN schema :
        IF IsAbsent(arguments[k]) THEN ~schema[k].required
        ELSE arguments[k].t = schema[k].type

\* a parse that fills the defaults in but lets undeclared keys through
ParsedKeepsUndeclared(schema, arguments) ==
    [k \in ArgKeys |->
        IF k \in DOMAIN schema /\ IsAbsent(arguments[k]) THEN schema[k].default
        ELSE arguments[k]]

\* the parsed arguments: declared keys only, defaults filled in
Parsed(schema, arguments) ==
    [k \in ArgKeys |->
        IF k \notin DOMAIN schema THEN Absent
        ELSE IF IsAbsent(arguments[k]) THEN schema[k].default
        ELSE arguments[k]]

Request(operation, arguments) == [operation |-> operation, arguments |-> arguments]

NoRequest == Request("", NoArgs)

\* ------------------------------------------------------ paths and files
\* A path or file name is a string whose lexemes are "/", the names between
\* the slashes and a final extension such as ".svg".
Lower(l) == CASE l = ".SVG" -> ".svg" [] l = "Logo" -> "logo" [] OTHER -> l

toLowerCase(s) == [i \in 1..Len(s) |-> Lower(s[i])]

endsWith(s, suffix) == Len(s) > 0 /\ s[Len(s)] = suffix

\* the extension test without toLowerCase()
WithSvgExtensionCaseSensitive(filename) ==
    IF ~endsWith(filename, ".svg") THEN filename \o <<".svg">> ELSE filename

\* if (!filename.toLowerCase().endsWith(".svg")) filename += ".svg"
WithSvgExtension(filename) ==
    IF ~endsWith(toLowerCase(filename), ".svg") THEN filename \o <<".svg">>
    ELSE filename

\* process.cwd()
Cwd == <<"/", "work">>

\* path.resolve(base, name)
Resolve(base, name) ==
    IF Len(name) > 0 /\ name[1] = "/" THEN name ELSE base \o <<"/">> \o name

Slashes(path) == {i \in 2..Len(path) : path[i] = "/"}

\* path.dirname(path)
Dirname(path) ==
    IF Slashes(path) = {} THEN <<"/">>
    ELSE SubSeq(path, 1, (CHOOSE i \in Slashes(path) : \A j \in Slashes(path) : j <= i) - 1)

\* the directories fs.mkdir(dir, {recursive: true}) makes sure exist
Ancestors(dir) ==
    {SubSeq(dir, 1, i - 1) : i \in Slashes(dir)} \cup {dir}

OUTPUT_DIR == Cwd \o <<"/", "output">>

UUIDs == {ToString(n) : n \in 1..MaxUuids}

\* a file name that does not depend on the uuid
PdfPathFixed(uuid) == OUTPUT_DIR \o <<"/", "1", ".pdf">>

\* path.join(OUTPUT_DIR, `${uuid}.pdf`)
PdfPath(uuid) == OUTPUT_DIR \o <<"/", uuid, ".pdf">>

NoSource == Source("", <<>>, NoElem)

\* what a file holds: the source as given ("raw"), SVGO's output for it
\* ("svgo"), the PDF drawn from it ("pdf"); "none" is no file
Content(form, src) == [form |-> form, src |-> src]

NoContent == Content("none", NoSource)

File(content, writers) == [content |-> content, writers |-> writers]

\* ---------------------------------------------------- response envelopes
TextItem(is, arg) == [type |-> "text", is |-> is, arg |-> arg]

ImageItem(src, resized) == [type |-> "image", is |-> "image/png", arg |-> <<src, resized>>]

\* { content, isError }: what a handler returns
Envelope(content, isError) ==
    [kind |-> "envelope", content |-> content, isError |-> isError]

\* throw new Error(prefix + detail): a hard failure of the invocation
Thrown(prefix, detail) ==
    [kind |-> "throw", content |-> <<TextItem(prefix, detail)>>, isError |-> FALSE]

NoResult == [kind |-> "none", content |-> <<>>, isError |-> FALSE]

\* a catch block that also hands back the output path it was working on
ErrorEnvelopeWithPath(prefix, message) ==
    Envelope(<<TextItem(prefix, <<message>>), TextItem("path", <<message>>)>>, TRUE)

\* a handler's catch block: { content: [{type: "text", text: prefix + e.message}], isError: true }
ErrorEnvelope(prefix, message) == Envelope(<<TextItem(prefix, <<message>>)>>, TRUE)

\* the locals a handler keeps across its awaits
Local(content, path) == [content |-> content, path |-> path]

NoLocal == Local(NoContent, <<>>)

\* ------------------------------------------------------------ the inputs
GoodSvg ==
    Source("none", <<>>,
           Elem(Str("svg"), <<Str("width")>>, FALSE,
                <<Elem(Str("rect"), <<Str("width")>>, FALSE, <<>>)>>))

\* <notsvg/>
NotSvg == Source("none", <<>>, Elem(Str("notsvg"), <<>>, FALSE, <<>>))

\* <svg><rect></svg>
UnclosedSvg ==
    Source("unclosed", <<>>,
           Elem(Str("svg"), <<>>, FALSE, <<Elem(Str("rect"), <<>>, FALSE, <<>>)>>))

SampleSources == {GoodSvg, NotSvg, UnclosedSvg}

\* <svg><customShape width=""/><blob width=""/></svg>
WarnSvg ==
    Source("none", <<>>,
           Elem(Str("svg"), <<>>, FALSE,
                <<Elem(Str("customShape"), <<Str("width")>>, FALSE, <<>>),
                  Elem(Str("blob"), <<Str("width")>>, FALSE, <<>>)>>))

\* <svg/>
BareSvg == Source("none", <<>>, Elem(Str("svg"), <<>>, FALSE, <<>>))

\* <svg width="" viewBox=""><title>..</title><rect/></svg>
TitledSvg ==
    Source("none", <<XmlDecl>>,
           Elem(Str("svg"), <<Str("width"), Str("viewBox")>>, FALSE,
                <<Elem(Str("title"), <<>>, TRUE, <<>>),
                  Elem(Str("rect"), <<>>, FALSE, <<>>)>>))

\* <?xml ..?><?xml-stylesheet href=""?><g width=""><rect/></g>
StyledGroup ==
    Source("none", <<XmlDecl, StyleSheetPI>>,
           Elem(Str("g"), <<Str("width")>>, FALSE,
                <<Elem(Str("rect"), <<>>, FALSE, <<>>)>>))

\* the empty string
EmptySource == Source("empty", <<>>, NoElem)

\* the sources handed to get_svg_metadata
MetadataSources == SampleSources \cup {BareSvg, TitledSvg, StyledGroup, EmptySource}

Filenames == {<<"icon">>, <<"icon", ".svg">>, <<"sub", "/", "Logo", ".SVG">>}

Inv == 1..MaxInv

VARIABLES
    build,     \* the entry point that built the server
    pc,        \* pc[i]: where invocation i is
    request,   \* request[i]: the operation name and the supplied arguments
    args,      \* args[i]: the arguments the handler was called with
    local,     \* local[i]: the handler's locals
    called,    \* called[i]: the collaborator calls the handler has made
    result,    \* result[i]: the envelope returned, or the failure thrown
    files,     \* the file at each path: its content and who wrote it
    dirs,      \* the directories that exist
    uuids,     \* the values uuidv4() has returned
    sseTransport, \* run()'s variable sseTransport: 0 (undefined) or a transport
    transports,   \* the SSEServerTransports created, in order of creation
    posts         \* the POST /messages requests received, in order of arrival

vars == <<build, pc, request, args, local, called, result, files, dirs, uuids,
          sseTransport, transports, posts>>

ssevars == <<sseTransport, transports, posts>>

toolvars == <<build, pc, request, args, local, called, result, files, dirs, uuids>>

fsvars == <<files, dirs, uuids>>

OutputPaths ==
    {Resolve(Cwd, WithSvgExtension(f)) : f \in Filenames} \cup {PdfPath(u) : u \in UUIDs}

InitServer ==
    /\ build \in Builds
    /\ args = [i \in Inv |-> NoArgs]
    /\ local = [i \in Inv |-> NoLocal]
    /\ called = [i \in Inv |-> {}]
    /\ result = [i \in Inv |-> NoResult]
    /\ files = [p \in OutputPaths |-> File(NoContent, {})]
    /\ dirs = {<<"/">>, Cwd, OUTPUT_DIR}
    /\ uuids = {}
    /\ sseTransport = 0
    /\ transports = <<>>
    /\ posts = <<>>

\* a client's request arrives for a free slot
Submit(i, req) ==
    /\ pc[i] = "idle"
    /\ pc' = [pc EXCEPT ![i] = "received"]
    /\ request' = [request EXCEPT ![i] = req]
    /\ UNCHANGED <<ssevars, build, args, local, called, result, fsvars>>

\* The tools/call handler of McpServer: look the tool up, check the
\* arguments against its inputSchema, and only then call the handler.
Dispatch(i) ==
    /\ pc[i] = "received"
    /\ LET op == request[i].operation IN
       IF op \notin Operations
       THEN /\ result' = [result EXCEPT ![i] = Thrown("Tool not found: ", <<op>>)]
            /\ pc' = [pc EXCEPT ![i] = "done"]
            /\ args' = args
       ELSE IF ~Accepts(Registry[op], request[i].arguments)
       THEN /\ result' = [result EXCEPT ![i] = Thrown("Invalid arguments for tool: ", <<op>>)]
            /\ pc' = [pc EXCEPT ![i] = "done"]
            /\ args' = args
       ELSE /\ args' = [args EXCEPT ![i] = Parsed(Registry[op], request[i].arguments)]
            /\ pc' = [pc EXCEPT ![i] = "handler"]
            /\ result' = result
    /\ UNCHANGED <<ssevars, build, request, local, called, fsvars>>

\* the handler of `op` is about to run for invocation i
AtHandler(i, op) == pc[i] = "handler" /\ request[i].operation = op

svg_code(i) == args[i]["svg_code"].v[1]

Return(i, res) ==
    /\ result' = [result EXCEPT ![i] = res]
    /\ pc' = [pc EXCEPT ![i] = "done"]

\* validate_svg: JSON.stringify(validateSvgContent(svg_code))
ValidateSvg(i) ==
    /\ AtHandler(i, "validate_svg")
    /\ Return(i, Envelope(<<TextItem("verdict", <<Validate(build, svg_code(i))>>)>>, FALSE))
    /\ called' = [called EXCEPT ![i] = {}]
    /\ UNCHANGED <<ssevars, build, request, args, local, fsvars>>

\* the precondition left out
RenderPreconditionSkipped(validation) == TRUE

\* if (!validation.valid) throw ...: may the handler go on to rasterize
RenderPrecondition(validation) == validation.valid

\* a number or boolean argument used as a condition
Truthy(x) == ~IsAbsent(x) /\ x.v[1] # 0

Call(collab, input) == [collab |-> collab, input |-> input]

\* render_svg up to its await: the structural precondition, then the
\* sharp pipeline is started on the source
RenderSvg(i) ==
    /\ AtHandler(i, "render_svg")
    /\ LET validation == Validate(build, svg_code(i))
           resized == Truthy(args[i]["width"]) \/ Truthy(args[i]["height"])
       IN IF ~RenderPrecondition(validation)
          THEN /\ Return(i, Thrown("Invalid SVG: ", validation.errors))
               /\ called' = called
          ELSE /\ called' = [called EXCEPT ![i] = @ \cup {Call("sharp", <<svg_code(i), resized>>)}]
               /\ pc' = [pc EXCEPT ![i] = "await_png"]
               /\ result' = result
    /\ UNCHANGED <<ssevars, build, request, args, local, fsvars>>

\* pipeline.png().toBuffer() settles: the image, or the failure rethrown
RenderSvgSettled(i) ==
    /\ pc[i] = "await_png"
    /\ \E ok \in BOOLEAN :
          Return(i, IF ok
                    THEN Envelope(<<ImageItem(svg_code(i),
                                              Truthy(args[i]["width"]) \/ Truthy(args[i]["height"]))>>,
                                  FALSE)
                    ELSE Thrown("Error rendering SVG: ", <<"sharp failed">>))
    /\ UNCHANGED <<ssevars, build, request, args, local, called, fsvars>>

\* let content = svg_code; if (shouldOptimize) { try { content =
\* optimize(svg_code).data } catch {} }
SaveContent(src, shouldOptimize, optimized) ==
    IF shouldOptimize /\ optimized THEN Content("svgo", src) ELSE Content("raw", src)

\* path.resolve(process.cwd(), filename) after the extension is added
SavePath(filename) == Resolve(Cwd, WithSvgExtension(filename))

\* save_svg without the inner try/catch: a failure of the minifier reaches
\* the outer catch block
SaveSvgMinifierUncaught(i) ==
    /\ AtHandler(i, "save_svg")
    /\ LET shouldOptimize == args[i]["optimize"].v[1] IN
       \E optimized \in (IF shouldOptimize THEN BOOLEAN ELSE {FALSE}) :
          /\ local' = [local EXCEPT ![i] =
                Local(SaveContent(svg_code(i), shouldOptimize, optimized),
                      SavePath(args[i]["filename"].v[1]))]
          /\ called' = [called EXCEPT ![i] =
                IF shouldOptimize THEN @ \cup {Call("svgo", <<svg_code(i), optimized>>)} ELSE @]
          /\ IF shouldOptimize /\ ~optimized
             THEN Return(i, ErrorEnvelope("Error saving SVG: ", "svgo failed"))
             ELSE pc' = [pc EXCEPT ![i] = "await_mkdir"] /\ result' = result
    /\ UNCHANGED <<ssevars, build, request, args, fsvars>>

\* save_svg up to fs.mkdir: the content and the path are fixed
SaveSvg(i) ==
    /\ AtHandler(i, "save_svg")
    /\ LET shouldOptimize == args[i]["optimize"].v[1] IN
       \E optimized \in (IF shouldOptimize THEN BOOLEAN ELSE {FALSE}) :
          /\ local' = [local EXCEPT ![i] =
                Local(SaveContent(svg_code(i), shouldOptimize, optimized),
                      SavePath(args[i]["filename"].v[1]))]
          /\ called' = [called EXCEPT ![i] =
                IF shouldOptimize THEN @ \cup {Call("svgo", <<svg_code(i), optimized>>)} ELSE @]
    /\ pc' = [pc EXCEPT ![i] = "await_mkdir"]
    /\ UNCHANGED <<ssevars, build, request, args, result, fsvars>>

\* await fs.mkdir(dir, {recursive: true}) settles
SaveSvgMkdir(i) ==
    /\ pc[i] = "await_mkdir"
    /\ \E ok \in BOOLEAN :
          IF ok
          THEN /\ dirs' = dirs \cup Ancestors(Dirname(local[i].path))
               /\ pc' = [pc EXCEPT ![i] = "await_write"]
               /\ result' = result
          ELSE /\ Return(i, ErrorEnvelope("Error saving SVG: ", "mkdir failed"))
               /\ dirs' = dirs
    /\ UNCHANGED <<ssevars, build, request, args, local, called, files, uuids>>

\* await fs.writeFile(finalPath, content, "utf-8") settles
SaveSvgWrite(i) ==
    /\ pc[i] = "await_write"
    /\ \E ok \in (IF Dirname(local[i].path) \in dirs THEN BOOLEAN ELSE {FALSE}) :
          IF ok
          THEN /\ files' = [files EXCEPT ![local[i].path] =
                                File(local[i].content, @.writers \cup {i})]
               /\ Return(i, Envelope(<<TextItem("path", <<local[i].path>>)>>, FALSE))
          ELSE /\ Return(i, ErrorEnvelope("Error saving SVG: ", "write failed"))
               /\ files' = files
    /\ UNCHANGED <<ssevars, build, request, args, local, called, dirs, uuids>>

\* a handler that makes one collaborator call inside try/catch and returns
\* its output as text, or the error envelope
Adapter(i, op, collab, input, is, prefix) ==
    /\ AtHandler(i, op)
    /\ called' = [called EXCEPT ![i] = @ \cup {Call(collab, input)}]
    /\ \E ok \in BOOLEAN :
          Return(i, IF ok THEN Envelope(<<TextItem(is, input)>>, FALSE)
                    ELSE ErrorEnvelope(prefix, collab))
    /\ UNCHANGED <<ssevars, build, request, args, local, fsvars>>

OptimizeSvg(i) ==
    Adapter(i, "optimize_svg", "svgo", <<svg_code(i)>>, "optimized", "Error optimizing SVG: ")

FormatSvg(i) ==
    Adapter(i, "format_svg", "xml-formatter", <<svg_code(i)>>, "formatted",
            "Error formatting SVG: ")

SvgToReact(i) ==
    Adapter(i, "svg_to_react", "svgr", <<svg_code(i), "icon", args[i]["component_name"].v[1]>>,
            "jsx", "Error converting to React: ")

SvgToReactNative(i) ==
    Adapter(i, "svg_to_react_native", "svgr",
            <<svg_code(i), "native", args[i]["component_name"].v[1]>>,
            "jsx", "Error converting to React Native: ")

\* svg_to_data_uri: Buffer.from(svg_code).toString("base64") does not fail
SvgToDataUri(i) ==
    /\ AtHandler(i, "svg_to_data_uri")
    /\ Return(i, Envelope(<<TextItem("data:image/svg+xml;base64,", <<svg_code(i)>>)>>, FALSE))
    /\ UNCHANGED <<ssevars, build, request, args, local, called, fsvars>>

\* svg_to_pdf answering with the path right after doc.end(), the stream's
\* signal not awaited
SvgToPdfNoAwait(i) ==
    /\ AtHandler(i, "svg_to_pdf")
    /\ \E uuid \in UUIDs \ uuids :
          /\ uuids' = uuids \cup {uuid}
          /\ files' = [files EXCEPT ![PdfPath(uuid)] =
                          File(Content("partial", svg_code(i)), @.writers \cup {i})]
          /\ local' = [local EXCEPT ![i] = Local(Content("pdf", svg_code(i)), PdfPath(uuid))]
          /\ \E ok \in BOOLEAN :
                Return(i, IF ok THEN Envelope(<<TextItem("path", <<PdfPath(uuid)>>)>>, FALSE)
                          ELSE ErrorEnvelope("Error converting SVG to PDF: ", "svg-to-pdfkit"))
    /\ called' = [called EXCEPT ![i] = @ \cup {Call("svg-to-pdfkit", <<svg_code(i)>>)}]
    /\ UNCHANGED <<ssevars, build, request, args, dirs>>

\* svg_to_pdf up to its await: a fresh name, the write stream opened on it,
\* the drawing (which may throw) and doc.end()
SvgToPdf(i) ==
    /\ AtHandler(i, "svg_to_pdf")
    /\ \E uuid \in UUIDs \ uuids :
          /\ uuids' = uuids \cup {uuid}
          /\ files' = [files EXCEPT ![PdfPath(uuid)] =
                          File(Content("partial", svg_code(i)), @.writers \cup {i})]
          /\ local' = [local EXCEPT ![i] = Local(Content("pdf", svg_code(i)), PdfPath(uuid))]
    /\ called' = [called EXCEPT ![i] = @ \cup {Call("svg-to-pdfkit", <<svg_code(i)>>)}]
    /\ \E ok \in BOOLEAN :
          IF ok THEN pc' = [pc EXCEPT ![i] = "await_finish"] /\ result' = result
          ELSE Return(i, ErrorEnvelope("Error converting SVG to PDF: ", "svg-to-pdfkit"))
    /\ UNCHANGED <<ssevars, build, request, args, dirs>>

\* the write stream emits 'finish' or 'error'
SvgToPdfSettled(i) ==
    /\ pc[i] = "await_finish"
    /\ \E ok \in BOOLEAN :
          IF ok
          THEN /\ files' = [files EXCEPT ![local[i].path] =
                                File(local[i].content, @.writers \cup {i})]
               /\ Return(i, Envelope(<<TextItem("path", <<local[i].path>>)>>, FALSE))
          ELSE /\ Return(i, ErrorEnvelope("Error converting SVG to PDF: ", "stream error"))
               /\ files' = files
    /\ UNCHANGED <<ssevars, build, request, args, local, called, dirs, uuids>>

Undefined == [k |-> "undefined", e |-> <<>>]

\* obj[key]
Lookup(obj, key) ==
    IF IndexOfKey(obj.e, key) = 0 THEN Undefined ELSE obj.e[IndexOfKey(obj.e, key)].val

\* !v for a parsed value
Falsy(v) == v.k \in {"undefined", "empty"}

\* let root = jsonObj.svg; if (!root) { keys = non-"?xml" keys;
\* if (keys.length > 0) root = jsonObj[keys[0]] }
MetadataRoot(jsonObj) ==
    LET root == Lookup(jsonObj, Str("svg"))
        keys == SelectSeq([j \in 1..Len(jsonObj.e) |-> jsonObj.e[j].key],
                          LAMBDA key : key # Str("?xml"))
    IN IF Falsy(root) /\ Len(keys) > 0 THEN Lookup(jsonObj, keys[1]) ELSE root

\* the fields JSON.stringify keeps of { width: root["@_width"], height:
\* root["@_height"], viewBox: root["@_viewBox"], title: root.title }
MetadataFields(root) ==
    {f \in {"width", "height", "viewBox", "title"} :
        Lookup(root, IF f = "title" THEN Str("title") ELSE <<"@_", f>>) # Undefined}

\* get_svg_metadata
GetSvgMetadata(i) ==
    /\ AtHandler(i, "get_svg_metadata")
    /\ LET root == MetadataRoot(parse(svg_code(i), <<"@_">>)) IN
       Return(i, IF Falsy(root)
                 THEN ErrorEnvelope("Error extracting metadata: ",
                                    "Could not find SVG root element")
                 ELSE Envelope(<<TextItem("metadata", <<MetadataFields(root)>>)>>, FALSE))
    /\ called' = [called EXCEPT ![i] = @ \cup {Call("XMLParser", <<svg_code(i)>>)}]
    /\ UNCHANGED <<ssevars, build, request, args, local, fsvars>>

\* the response has been sent: the slot is free again
Respond(i) ==
    /\ pc[i] = "done"
    /\ pc' = [pc EXCEPT ![i] = "idle"]
    /\ request' = [request EXCEPT ![i] = NoRequest]
    /\ args' = [args EXCEPT ![i] = NoArgs]
    /\ local' = [local EXCEPT ![i] = NoLocal]
    /\ called' = [called EXCEPT ![i] = {}]
    /\ result' = [result EXCEPT ![i] = NoResult]
    /\ UNCHANGED <<ssevars, build, fsvars>>

\* one step of the handler of invocation i, whichever it is
Handler(i) ==
    \/ RenderSvg(i)
    \/ RenderSvgSettled(i)
    \/ SaveSvg(i)
    \/ SaveSvgMkdir(i)
    \/ SaveSvgWrite(i)
    \/ OptimizeSvg(i)
    \/ FormatSvg(i)
    \/ SvgToReact(i)
    \/ SvgToReactNative(i)
    \/ SvgToDataUri(i)
    \/ SvgToPdf(i)
    \/ SvgToPdfSettled(i)
    \/ ValidateSvg(i)
    \/ GetSvgMetadata(i)

\* ------------------------------------------------- the requests submitted
With(a, k, v) == [a EXCEPT ![k] = v]

FileSources == {GoodSvg, UnclosedSvg}

SourcesOf(op) ==
    CASE op = "save_svg" -> FileSources
      [] op = "svg_to_pdf" -> {GoodSvg}
      [] op = "get_svg_metadata" -> MetadataSources
      [] OTHER -> SampleSources

\* the values of the parameters besides svg_code that a well-formed request
\* of `op` supplies
Extras(op) ==
    CASE op = "render_svg" -> {With(NoArgs, "width", w) : w \in {Absent, NVal(64)}}
      [] op = "save_svg" ->
            {With(With(NoArgs, "filename", SVal(f)), "optimize", o) :
                f \in Filenames, o \in {Absent, BVal(FALSE)}}
      [] op \in {"svg_to_react", "svg_to_react_native"} ->
            {With(NoArgs, "component_name", c) : c \in {Absent, SVal("Icon")}}
      [] OTHER -> {NoArgs}

GoodArgs(op) == {With(e, "svg_code", SVal(src)) : e \in Extras(op), src \in SourcesOf(op)}

BaseArgs(op) ==
    With(IF op = "save_svg" THEN With(NoArgs, "filename", SVal(<<"icon">>)) ELSE NoArgs,
         "svg_code", SVal(GoodSvg))

\* requests the input contract rejects, and one with an undeclared key
OddArgs(op) ==
    {With(BaseArgs(op), "svg_code", Absent),
     With(BaseArgs(op), "svg_code", NVal(42)),
     With(BaseArgs(op), "verbose", BVal(TRUE))}
    \cup (IF op = "save_svg"
          THEN {With(BaseArgs(op), "filename", Absent),
                With(BaseArgs(op), "optimize", SVal("yes"))}
          ELSE {})

Requests ==
    UNION {{Request(op, a) : a \in GoodArgs(op) \cup OddArgs(op)} : op \in Operations}
    \cup {Request("no_such_tool", BaseArgs("no_such_tool"))}

\* save_svg and svg_to_pdf requests, the operations that write files
FileRequests ==
    {Request("save_svg", With(With(BaseArgs("save_svg"), "filename", SVal(f)), "optimize", o)) :
        f \in Filenames, o \in {Absent, BVal(FALSE)}}
    \cup {Request("svg_to_pdf", BaseArgs("svg_to_pdf"))}

Idle ==
    /\ pc = [i \in Inv |-> "idle"]
    /\ request = [i \in Inv |-> NoRequest]

\* ------------------------------------- one invocation after the other
Init == InitServer /\ Idle

Next ==
    \/ \E req \in Requests : Submit(1, req)
    \/ Dispatch(1)
    \/ Handler(1)
    \/ Respond(1)

Spec == Init /\ [][Next]_vars

\* --------------------------- file-writing invocations in flight together
\* Slots are taken in order and used once.
NextC ==
    \E i \in Inv :
        \/ /\ \A j \in 1..(i - 1) : pc[j] # "idle"
           /\ \E req \in FileRequests : Submit(i, req)
        \/ Dispatch(i)
        \/ SaveSvg(i)
        \/ SaveSvgMkdir(i)
        \/ SaveSvgWrite(i)
        \/ SvgToPdf(i)
        \/ SvgToPdfSettled(i)

SpecC == Init /\ [][NextC]_vars

\* ------------------------------------------- the validator on its own
ValidateRequest(src) == Request("validate_svg", [NoArgs EXCEPT !["svg_code"] = SVal(src)])

\* every bounded source is handed to validate_svg
InitV ==
    /\ InitServer
    /\ \E src \in Sources :
          /\ request = [i \in Inv |-> IF i = 1 THEN ValidateRequest(src) ELSE NoRequest]
          /\ pc = [i \in Inv |-> IF i = 1 THEN "received" ELSE "idle"]

NextV ==
    \/ Dispatch(1)
    \/ ValidateSvg(1)
    \/ Respond(1)
    \/ \E src \in SampleSources \cup {WarnSvg} : Submit(1, ValidateRequest(src))

SpecV == InitV /\ [][NextV]_vars

\* ------------------------------------------------ run() in SSE mode
Clients == 1..MaxClients

\* new SSEServerTransport("/messages", res) on the response of client c
Transport(client, connect) == [client |-> client, connect |-> connect]

\* a POST /messages of a client: the number of transports created when it
\* arrived, the transport whose handlePostMessage was called (0: none) and
\* whether that call has settled
Post(client, gets, handledBy, settled) ==
    [client |-> client, gets |-> gets, handledBy |-> handledBy, settled |-> settled]

\* a GET /sse handler that fills the slot only while it is empty
GetSseKeepsFirst(c) ==
    /\ Len(transports) < MaxGets
    /\ transports' = Append(transports, Transport(c, "pending"))
    /\ sseTransport' = IF sseTransport = 0 THEN Len(transports) + 1 ELSE sseTransport
    /\ UNCHANGED <<posts, toolvars>>

\* app.get("/sse"): sseTransport = new SSEServerTransport(...), then
\* server.connect(sseTransport) is started
GetSse(c) ==
    /\ Len(transports) < MaxGets
    /\ transports' = Append(transports, Transport(c, "pending"))
    /\ sseTransport' = Len(transports) + 1
    /\ UNCHANGED <<posts, toolvars>>

\* await server.connect(sseTransport) settles for transport n
ConnectSettled(n) ==
    /\ n \in 1..Len(transports)
    /\ transports[n].connect = "pending"
    /\ transports' = [transports EXCEPT ![n].connect = "connected"]
    /\ UNCHANGED <<sseTransport, posts, toolvars>>

\* app.post("/messages"): if (sseTransport) sseTransport.handlePostMessage(req, res);
\* with no transport the handler ends without calling anything
PostMessages(c) ==
    /\ Len(posts) < MaxPosts
    /\ posts' = Append(posts, Post(c, Len(transports), sseTransport, sseTransport = 0))
    /\ UNCHANGED <<sseTransport, transports, toolvars>>

\* await sseTransport.handlePostMessage(req, res) settles for post k
HandleSettled(k) ==
    /\ k \in 1..Len(posts)
    /\ ~posts[k].settled
    /\ posts' = [posts EXCEPT ![k].settled = TRUE]
    /\ UNCHANGED <<sseTransport, transports, toolvars>>

\* createServerInstance() is the server of run()
InitS == InitServer /\ Idle /\ build = "createServerInstance"

NextS ==
    \/ \E c \in Clients : GetSse(c)
    \/ \E n \in 1..MaxGets : ConnectSettled(n)
    \/ \E c \in Clients : PostMessages(c)
    \/ \E k \in 1..MaxPosts : HandleSettled(k)

SpecS == InitS /\ [][NextS]_vars

\* ================================================================ claims
\* validate_svg has returned the verdict for invocation i
Validated(i) ==
    /\ pc[i] = "done"
    /\ request[i].operation = "validate_svg"
    /\ result[i].kind = "envelope"

VerdictOf(i) == result[i].content[1].arg[1]

RECURSIVE PreorderTags(_)
\* the tags of an element and its descendants in document order
PreorderTags(el) ==
    LET RECURSIVE Kids(_)
        Kids(j) == IF j > Len(el.kids) THEN <<>>
                   ELSE PreorderTags(el.kids[j]) \o Kids(j + 1)
    IN <<el.tag>> \o Kids(1)

KnownTag(tag) == StripNs(tag) = Str("svg") \/ StripNs(tag) \in SVG_TAGS

\* one warning per element outside the vocabulary, in document order
ExpectedWarnings(src) ==
    LET unknown == SelectSeq(PreorderTags(src.root), LAMBDA tag : ~KnownTag(tag))
    IN [j \in 1..Len(unknown) |-> TagWarning(StripNs(unknown[j]))]

AllStandard(src) == \A j \in 1..Len(PreorderTags(src.root)) : KnownTag(PreorderTags(src.root)[j])

\* C1: for every well-formed source, the verdict of the validator with the
\* tag walk (createServer) lists exactly one warning per element whose
\* stripped tag is not 'svg' and not in the vocabulary, in document
\* pre-order -- also for an element without attributes and children.
C1_WarningPerNonStandardElement ==
    \A i \in Inv :
        (Validated(i) /\ build = "createServer" /\ svg_code(i).fault = "none")
        => VerdictOf(i).warnings = ExpectedWarnings(svg_code(i))

\* C2: for every well-formed source whose root is 'svg' and whose elements
\* are all in the vocabulary, the verdict is valid with no errors and no
\* warnings (whatever the attributes, text, declaration, repeated siblings).
C2_StandardSourceIsClean ==
    \A i \in Inv :
        (/\ Validated(i)
         /\ svg_code(i).fault = "none"
         /\ StripNs(svg_code(i).root.tag) = Str("svg")
         /\ AllStandard(svg_code(i)))
        => VerdictOf(i) = [valid |-> TRUE, errors |-> <<>>, warnings |-> <<>>]

\* C3: for every input that fails the well-formedness check the verdict is
\* valid=false with exactly one error, the syntax fault, and no warnings:
\* neither the root check nor the tag walk has added anything.
C3_MalformedFailsFast ==
    \A i \in Inv :
        (Validated(i) /\ svg_code(i).fault # "none")
        => /\ VerdictOf(i).valid = FALSE
           /\ Len(VerdictOf(i).errors) = 1
           /\ VerdictOf(i).errors[1].type = "XML Syntax Error: "
           /\ VerdictOf(i).warnings = <<>>

\* an unclosed document whose root is not 'svg' has been validated by the
\* validator with the tag walk: the root check would have had an error to add
C3_Witness ==
    /\ Validated(1)
    /\ build = "createServer"
    /\ svg_code(1).fault = "unclosed"
    /\ svg_code(1).root.tag = Str("Svg")
    /\ svg_code(1).root.kids[1].attrs # <<>>
    /\ svg_code(1).root.kids[1].tag = Str("customShape")

\* C4: for every well-formed source the verdict holds the error "Root
\* element must be 'svg', found '<tag>'" if and only if the root element's
\* tag, its namespace prefix stripped, is not exactly 'svg'.
C4_RootErrorIffRootNotSvg ==
    \A i \in Inv :
        (Validated(i) /\ svg_code(i).fault = "none")
        => VerdictOf(i).errors =
              (IF StripNs(svg_code(i).root.tag) # Str("svg")
               THEN <<RootError(svg_code(i).root.tag)>> ELSE <<>>)

\* C5: every verdict has valid = (errors is empty), whatever the warnings.
C5_ValidIffNoErrors ==
    \A i \in Inv :
        Validated(i) => (VerdictOf(i).valid <=> (VerdictOf(i).errors = <<>>))

\* a verdict, not the first of the run, that is valid although every child
\* of the root drew a warning
C5_Witness ==
    /\ Validated(1)
    /\ svg_code(1) = WarnSvg
    /\ VerdictOf(1).valid
    /\ Len(VerdictOf(1).warnings) = Len(svg_code(1).root.kids)

\* the handler of invocation i has been called (its arguments are parsed)
HandlerRan(i) == pc[i] \notin {"idle", "received"} /\ ~IsAbsent(args[i]["svg_code"])

IsImage(item) == item.type = "image"

\* C6: render_svg calls the rasterizer only for the source of its own
\* invocation and only when the validator's verdict for that source is
\* valid; on an invalid verdict the handler ends in a hard failure with no
\* rasterizer call made and no image item returned.
C6_RasterizeOnlyAfterValid ==
    \A i \in Inv :
        /\ \A c \in called[i] :
              c.collab = "sharp" =>
                 /\ request[i].operation = "render_svg"
                 /\ c.input[1] = svg_code(i)
                 /\ Len(RootCheck(parse(c.input[1], <<>>))) = 0
                 /\ c.input[1].fault = "none"
        /\ (/\ HandlerRan(i)
            /\ request[i].operation = "render_svg"
            /\ pc[i] = "done"
            /\ ~Validate(build, svg_code(i)).valid)
           => /\ result[i].kind = "throw"
              /\ result[i].content[1].is = "Invalid SVG: "
              /\ called[i] = {}
              /\ \A j \in 1..Len(result[i].content) : ~IsImage(result[i].content[j])

\* render_svg on <notsvg/> has ended in the hard failure
C6_Witness ==
    /\ pc[1] = "done"
    /\ request[1].operation = "render_svg"
    /\ HandlerRan(1)
    /\ svg_code(1) = NotSvg
    /\ result[1].kind = "throw"

\* C7: whenever a handler has run, a failure of its collaborator comes back
\* as an isError envelope; the only hard failure a handler surfaces is
\* render_svg's structural precondition failure ("Invalid SVG: ...").
C7_OnlyPreconditionFailureIsHard ==
    \A i \in Inv :
        (HandlerRan(i) /\ pc[i] = "done" /\ result[i].kind = "throw")
        => /\ request[i].operation = "render_svg"
           /\ result[i].content[1].is = "Invalid SVG: "

\* the request names no registered operation, or lacks a required parameter,
\* or supplies a value of another type than the contract declares
BadRequest(req) ==
    \/ req.operation \notin Operations
    \/ \E k \in DOMAIN Registry[req.operation] :
          \/ Registry[req.operation][k].required /\ req.arguments[k].t = "undefined"
          \/ req.arguments[k].t \notin {"undefined", Registry[req.operation][k].type}

\* C8: the handler is entered only from dispatch and only for a request
\* that names a registered operation and meets its input contract; a request
\* that does not ends in a hard failure with the handler never called, no
\* collaborator call made and nothing written.
C8_RejectedBeforeHandler ==
    /\ [](\A i \in Inv :
            (pc[i] # "idle" /\ BadRequest(request[i]))
            => /\ pc[i] \in {"received", "done"}
               /\ args[i] = NoArgs
               /\ called[i] = {}
               /\ pc[i] = "done" =>
                     /\ result[i].kind = "throw"
                     /\ result[i].content[1].is \in
                           {"Tool not found: ", "Invalid arguments for tool: "})
    /\ [][\A i \in Inv :
            /\ (pc[i] # "handler" /\ pc'[i] = "handler")
               => (pc[i] = "received" /\ ~BadRequest(request[i]))
            /\ (pc[i] # "idle" /\ BadRequest(request[i])) => fsvars' = fsvars]_vars

\* save_svg without filename has been rejected
C8_Witness ==
    /\ pc[1] = "done"
    /\ request[1].operation = "save_svg"
    /\ IsAbsent(request[1].arguments["filename"])
    /\ ~IsAbsent(request[1].arguments["svg_code"])
    /\ result[1].kind = "throw"

\* a success envelope whose single item is the text `path`
ReturnsPath(res, path) ==
    /\ res.kind = "envelope"
    /\ ~res.isError
    /\ Len(res.content) = 1
    /\ res.content[1].type = "text"
    /\ res.content[1].is = "path"
    /\ res.content[1].arg = <<path>>

\* an isError envelope whose single item is the text prefix + message
ReturnsError(res, prefix) ==
    /\ res.kind = "envelope"
    /\ res.isError
    /\ Len(res.content) = 1
    /\ res.content[1].type = "text"
    /\ res.content[1].is = prefix

\* the file name resolved against the working directory, ".svg" appended
\* unless the name ends in ".svg" in whatever letter case
ExpectedSavePath(filename) ==
    <<"/", "work", "/">>
    \o (IF filename[Len(filename)] \in {".svg", ".SVG"} THEN filename
        ELSE filename \o <<".svg">>)

\* save_svg runs for invocation i with optimize = false
SavingUnoptimized(i) ==
    /\ HandlerRan(i)
    /\ request[i].operation = "save_svg"
    /\ pc[i] \in {"await_mkdir", "await_write", "done"}
    /\ args[i]["optimize"].v[1] = FALSE

\* C9: save_svg with optimize=false targets the file name resolved against
\* the working directory with '.svg' appended unless it ends in '.svg' in
\* any letter case, holds the unmodified svg_code as content, writes only
\* once the parent directories exist, and -- unless mkdir or writeFile
\* fails -- ends with that file holding exactly svg_code and a success
\* envelope whose single text item is the path.
C9_SaveUnoptimized ==
    \A i \in Inv :
        SavingUnoptimized(i) =>
            LET path == ExpectedSavePath(args[i]["filename"].v[1])
                raw == Content("raw", svg_code(i))
            IN /\ local[i] = Local(raw, path)
               /\ pc[i] = "await_write" => Ancestors(Dirname(path)) \subseteq dirs
               /\ pc[i] = "done" =>
                     \/ /\ ReturnsPath(result[i], path)
                        /\ files[path].content = raw
                        /\ Ancestors(Dirname(path)) \subseteq dirs
                     \/ ReturnsError(result[i], "Error saving SVG: ")

\* save_svg(svg, "sub/Logo.SVG", optimize=false) has succeeded
C9_Witness ==
    /\ SavingUnoptimized(1)
    /\ pc[1] = "done"
    /\ args[1]["filename"].v[1] = <<"sub", "/", "Logo", ".SVG">>
    /\ ~result[1].isError
    /\ files[<<"/", "work", "/", "sub", "/", "Logo", ".SVG">>].content = Content("raw", svg_code(1))
    /\ <<"/", "work", "/", "sub">> \in dirs

\* C10 as claimed: no output path is written by two distinct invocations.
C10_NoSharedOutputPath ==
    \A p \in DOMAIN files : Cardinality(files[p].writers) <= 1

\* C10 as amended: two distinct invocations write to the same path only if
\* both are save_svg invocations whose file names resolve to that path; a
\* path written by svg_to_pdf is written by no other invocation.
C10_OnlySameNamedSavesShare ==
    \A p \in DOMAIN files : \A i \in files[p].writers : \A j \in files[p].writers :
        i # j =>
           /\ request[i].operation = "save_svg"
           /\ request[j].operation = "save_svg"
           /\ ExpectedSavePath(args[i]["filename"].v[1]) = p
           /\ ExpectedSavePath(args[j]["filename"].v[1]) = p

\* the invocations save_svg "icon" and save_svg "icon.svg" have both written
C10_Witness ==
    /\ Cardinality(files[<<"/", "work", "/", "icon", ".svg">>].writers) = 2
    /\ args[1]["filename"].v[1] # args[2]["filename"].v[1]

\* the prefixes of the failure texts the handlers' catch blocks build
ErrorPrefixes ==
    {"Error saving SVG: ", "Error optimizing SVG: ", "Error formatting SVG: ",
     "Error converting to React: ", "Error converting to React Native: ",
     "Error converting to Data URI: ", "Error converting SVG to PDF: ",
     "Error extracting metadata: "}

\* a content item that carries the result of an operation: an image, an
\* output path, a transformed source, a verdict or the metadata
IsPayload(item) ==
    \/ item.type = "image"
    \/ item.is \in {"path", "optimized", "formatted", "jsx", "data:image/svg+xml;base64,",
                    "metadata", "verdict"}

\* C11: every envelope a handler has returned, whatever was invoked before,
\* has with isError=true only text items that describe the failure, and an
\* envelope that carries a payload item never has isError=true.
C11_ErrorEnvelopeHasNoPayload ==
    \A i \in Inv :
        result[i].kind = "envelope" =>
            /\ result[i].isError =>
                  /\ Len(result[i].content) >= 1
                  /\ \A j \in 1..Len(result[i].content) :
                        /\ result[i].content[j].type = "text"
                        /\ result[i].content[j].is \in ErrorPrefixes
                        /\ ~IsPayload(result[i].content[j])
            /\ (\E j \in 1..Len(result[i].content) : IsPayload(result[i].content[j]))
                  => ~result[i].isError

\* svg_to_pdf has failed at the stream after the file was opened and partly
\* written, in an invocation that follows a completed export: the only
\* content is the failure text
C11_Witness ==
    /\ pc[1] = "done"
    /\ request[1].operation = "svg_to_pdf"
    /\ result[1].kind = "envelope"
    /\ result[1].isError
    /\ local[1].path # <<>>
    /\ files[local[1].path].content.form = "partial"
    /\ \E p \in DOMAIN files : files[p].content.form = "pdf"

\* two argument values are the same value
SameValue(a, b) == a.t = b.t /\ a.v = b.v

\* the default the contract of `op` declares for parameter k, if any
DeclaredDefault(op, k) ==
    CASE op = "save_svg" /\ k = "optimize" -> BVal(TRUE)
      [] op \in {"svg_to_react", "svg_to_react_native"} /\ k = "component_name" ->
            SVal("SvgComponent")
      [] OTHER -> Absent

\* what the handler of `op` is to receive for key k of the supplied mapping
ExpectedArg(op, k, supplied) ==
    IF k \notin DOMAIN Registry[op] THEN Absent
    ELSE IF IsAbsent(supplied) THEN DeclaredDefault(op, k)
    ELSE supplied

\* C12: while the handler of an accepted invocation runs, it holds for each
\* declared parameter the supplied value, else the declared default, else
\* nothing, and nothing for a key the contract does not declare; a request
\* whose declared parameters meet the contract is never rejected, whatever
\* other keys it supplies.
C12_DeclaredOrDefaultOnly ==
    /\ [](\A i \in Inv :
            HandlerRan(i) =>
               \A k \in ArgKeys :
                  SameValue(args[i][k],
                            ExpectedArg(request[i].operation, k, request[i].arguments[k])))
    /\ [][\A i \in Inv :
            (pc[i] = "received" /\ pc'[i] # "received" /\ ~BadRequest(request[i]))
            => pc'[i] = "handler"]_vars

\* save_svg called with an undeclared key and without optimize: the handler
\* runs with optimize = true and without the undeclared key
C12_Witness ==
    /\ pc[1] = "await_mkdir"
    /\ request[1].operation = "save_svg"
    /\ SameValue(request[1].arguments["verbose"], BVal(TRUE))
    /\ IsAbsent(request[1].arguments["optimize"])
    /\ SameValue(args[1]["optimize"], BVal(TRUE))
    /\ IsAbsent(args[1]["verbose"])

\* svg_to_pdf runs, or has run, for invocation i
ExportingPdf(i) == HandlerRan(i) /\ request[i].operation = "svg_to_pdf"

\* C13: svg_to_pdf has a result only once it is done and that result is one
\* envelope which does not change afterwards; the envelope is the path of
\* the generated file only if it was built on the stream's 'finish', the
\* file then being complete, and it is the failure text "Error converting
\* SVG to PDF: ..." without the path if drawing threw or the stream failed.
C13_PathOnlyAfterFinish ==
    /\ [](\A i \in Inv :
            ExportingPdf(i) =>
               /\ (result[i].kind # "none") <=> (pc[i] = "done")
               /\ pc[i] = "done" =>
                     \/ /\ ReturnsPath(result[i], local[i].path)
                        /\ local[i].path \in {OUTPUT_DIR \o <<"/", u, ".pdf">> : u \in uuids}
                        /\ files[local[i].path].content = Content("pdf", svg_code(i))
                        /\ called[i] = {Call("svg-to-pdfkit", <<svg_code(i)>>)}
                     \/ /\ ReturnsError(result[i], "Error converting SVG to PDF: ")
                        /\ files[local[i].path].content.form = "partial")
    /\ [][\A i \in Inv :
            ExportingPdf(i) =>
               /\ (pc[i] = "done" /\ pc'[i] = "done") => result'[i] = result[i]
               /\ (pc[i] # "done" /\ pc'[i] = "done" /\ ~result'[i].isError)
                     => (pc[i] = "await_finish"
                         /\ files[local[i].path].content.form = "partial"
                         /\ files'[local[i].path].content.form = "pdf")]_vars

\* svg_to_pdf has returned the path of a complete file
C13_Witness ==
    /\ ExportingPdf(1)
    /\ pc[1] = "done"
    /\ ReturnsPath(result[1], local[1].path)
    /\ files[local[1].path].content.form = "pdf"

\* get_svg_metadata has returned for invocation i
MetadataDone(i) ==
    /\ HandlerRan(i)
    /\ request[i].operation = "get_svg_metadata"
    /\ pc[i] = "done"

\* the fields among width, height, viewBox and title that the root element
\* of the document has: the first three as attributes, title as a child
ExpectedMetadata(src) ==
    {f \in {"width", "height", "viewBox"} :
        \E j \in 1..Len(src.root.attrs) : src.root.attrs[j] = Str(f)}
    \cup {f \in {"title"} :
        \E j \in 1..Len(src.root.kids) : src.root.kids[j].tag = Str("title")}

\* C14: for every well-formed source, which has a root element,
\* get_svg_metadata returns the success envelope whose text holds exactly
\* the fields among width, height, viewBox and title that the root element
\* has -- also for a root without attributes and children; it returns the
\* error envelope only for a source without a root element.
C14_MetadataOfRootElement ==
    \A i \in Inv :
        (MetadataDone(i) /\ svg_code(i).fault # "unclosed") =>
            IF svg_code(i).fault = "none"
            THEN /\ result[i].kind = "envelope"
                 /\ ~result[i].isError
                 /\ result[i].content[1].is = "metadata"
                 /\ result[i].content[1].arg = <<ExpectedMetadata(svg_code(i))>>
            ELSE ReturnsError(result[i], "Error extracting metadata: ")

\* save_svg runs, or has run, for invocation i
Saving(i) == HandlerRan(i) /\ request[i].operation = "save_svg"

\* the minifier was called for invocation i and raised a failure
MinifierFailed(i) == Call("svgo", <<svg_code(i), FALSE>>) \in called[i]

\* C15: when the minifier fails in save_svg with optimize=true, the handler
\* goes on with the unmodified svg_code: unless mkdir or writeFile fails it
\* ends with that content in the file at the resolved path and the success
\* envelope holding the path; an error envelope of save_svg always reports
\* a failure of mkdir or of writeFile.
C15_MinifierFailureSavesOriginal ==
    \A i \in Inv :
        Saving(i) =>
            LET path == ExpectedSavePath(args[i]["filename"].v[1])
                raw == Content("raw", svg_code(i))
            IN /\ MinifierFailed(i) =>
                     /\ args[i]["optimize"].v[1] = TRUE
                     /\ pc[i] \in {"await_mkdir", "await_write", "done"}
                     /\ local[i] = Local(raw, path)
                     /\ pc[i] = "done" =>
                           \/ /\ ReturnsPath(result[i], path)
                              /\ files[path].content = raw
                           \/ ReturnsError(result[i], "Error saving SVG: ")
               /\ (pc[i] = "done" /\ result[i].isError) =>
                     /\ ReturnsError(result[i], "Error saving SVG: ")
                     /\ result[i].content[1].arg \in {<<"mkdir failed">>, <<"write failed">>}

\* save_svg with the default optimize=true has saved the original after the
\* minifier failed
C15_Witness ==
    /\ Saving(1)
    /\ pc[1] = "done"
    /\ IsAbsent(request[1].arguments["optimize"])
    /\ MinifierFailed(1)
    /\ ReturnsPath(result[1], local[1].path)
    /\ files[local[1].path].content = Content("raw", svg_code(1))

\* C16: every POST /messages is handled by the transport that the most
\* recent GET /sse before it created, whichever client sent the POST and
\* whichever client opened that connection, and by no transport when no
\* GET /sse came before it; the transport handling a POST does not change
\* while the POST is being handled.
C16_PostGoesToLatestTransport ==
    /\ [](\A k \in 1..Len(posts) :
            /\ posts[k].handledBy = posts[k].gets
            /\ posts[k].gets = 0 => posts[k].settled
            /\ posts[k].gets <= Len(transports))
    /\ [](sseTransport = Len(transports))
    /\ [][\A k \in 1..Len(posts) :
            /\ posts'[k].handledBy = posts[k].handledBy
            /\ posts'[k].client = posts[k].client]_vars

\* a POST arrived before any GET /sse and went to no transport; a later
\* POST of a client that has a connection of its own was handled by the
\* transport of another client's more recent connection
C16_Witness ==
    /\ Len(posts) = 2
    /\ posts[1].handledBy = 0
    /\ posts[2].handledBy = 2
    /\ Len(transports) = 2
    /\ transports[1].client = posts[2].client
    /\ transports[2].client # posts[2].client
====
